---- MODULE Spec2Model ----
(***************************************************************************)
(* State-machine model of the biometric credential lifecycle of the        *)
(* ReactNativeBiometrics demo: the keychain wrapper (BiometricAuthService),*)
(* the useBiometricAuth hook, the AuthProvider session operations, the     *)
(* AppNavigator screen switch and the LoginScreen auto-attempt effect.     *)
(*                                                                         *)
(* Scheduling: one JavaScript task is one action.  Every `await` of a      *)
(* native call (keychain, AsyncStorage, the 1 s login timer) is a          *)
(* suspension point; the native effect and the continuation that follows   *)
(* it up to the next await form one step.  All setState calls of a step    *)
(* are batched into one render (React Native 0.80), after which the        *)
(* screens' effects run: that is the operator Commit.                      *)
(***************************************************************************)
EXTENDS Integers, Sequences, FiniteSets, TLC

VARIABLES
    keychain,   \* the OS credential slot of SERVICE_NAME: <<>> or <<[username, password]>>
    prefs,      \* AsyncStorage: the set of keys holding 'true' / a value
    hook,       \* useBiometricAuth state (one instance, owned by AuthProvider)
    session,    \* AuthProvider state: user, isLoading
    screen,     \* the mounted LoginScreen instance, if any
    pc,         \* position of every asynchronous operation
    args,       \* arguments and closure values captured by operations in flight
    last,       \* the value most recently returned by an operation
    obs         \* history the properties refer to (changes no behaviour)

vars == <<keychain, prefs, hook, session, screen, pc, args, last, obs>>

----------------------------------------------------------------------------
(* Optional values: <<>> is null / undefined, <<x>> is the value x.        *)

Null == <<>>
Some(x) == <<x>>
IsSome(o) == o # <<>>

----------------------------------------------------------------------------
(* Inputs.                                                                 *)

Usernames == {"admin", "guest"}
Passwords == {"password123", "wrong"}
Credentials ==
    { [username |-> "admin", password |-> "password123"],
      [username |-> "guest", password |-> "password123"] }

BiometryTypes == {"FaceID"}

\* What a rejected native promise carries: an Error object (message = text)
\* or a bare string (no message field).
OsErrors ==
    { [hasMessage |-> TRUE,  text |-> "User canceled the operation."],
      [hasMessage |-> TRUE,  text |-> "Too many attempts. Try again later."] }

----------------------------------------------------------------------------
(* Text helpers: String.prototype.includes and template interpolation.     *)

Includes(s, sub) ==
    \E i \in 1..(Len(s) - Len(sub) + 1) : SubSeq(s, i, i + Len(sub) - 1) = sub

\* `${error.message || error}` : an empty message is falsy
MessageOrError(e) ==
    IF e.hasMessage /\ e.text # "" THEN e.text
    ELSE IF e.hasMessage THEN "Error" ELSE e.text

\* error.message && error.message.includes('cancel')
IsCancelError(e) == e.hasMessage /\ e.text # "" /\ Includes(e.text, "cancel")

----------------------------------------------------------------------------
(* MOCK_CREDENTIALS and the mock user.                                     *)

MOCK_CREDENTIALS == [username |-> "admin", password |-> "password123"]

\* A comparison that looks at the password only.
MatchesMockPassword(username, password) == password = MOCK_CREDENTIALS.password

MatchesMock(username, password) ==
    username = MOCK_CREDENTIALS.username /\ password = MOCK_CREDENTIALS.password

MockUser(username) ==
    [id |-> "1", username |-> username, email |-> username \o "@example.com"]

----------------------------------------------------------------------------
(* Results (BiometricAuthResult) and the service layer.                    *)

Result(success, error, cancelled, credentials) ==
    [success |-> success, error |-> error, cancelled |-> cancelled,
     credentials |-> credentials]

\* What Keychain.getSupportedBiometryType() can do: resolve with a type,
\* resolve with null, or reject.
ProbeOutcomes ==
    {[rejected |-> FALSE, type |-> Some(t)] : t \in BiometryTypes}
        \cup {[rejected |-> FALSE, type |-> Null], [rejected |-> TRUE, type |-> Null]}

\* A probe that reports available whenever the query resolved.
CapabilitiesWithoutNullTest(os) ==
    IF ~os.rejected
    THEN [isAvailable |-> TRUE, biometryType |-> os.type, error |-> Null]
    ELSE [isAvailable |-> FALSE, biometryType |-> Null,
          error |-> Some("Error checking biometric capabilities: Error")]

getBiometricCapabilities(os) ==
    IF ~os.rejected /\ IsSome(os.type)
    THEN [isAvailable |-> TRUE, biometryType |-> os.type, error |-> Null]
    ELSE IF ~os.rejected
    THEN [isAvailable |-> FALSE, biometryType |-> Null,
          error |-> Some("Biometric authentication is not available on this device")]
    ELSE [isAvailable |-> FALSE, biometryType |-> Null,
          error |-> Some("Error checking biometric capabilities: Error")]

\* An existence check that repeats what the hook already believes.
ExistenceFromFlag(rejected) == hook.hasStoredCredentials

\* BiometricAuthService.hasStoredCredentials: a rejected existence query is
\* swallowed to false.
hasStoredCredentials(rejected) == IF rejected THEN FALSE ELSE IsSome(keychain)

\* A catch block that reports a cancellation as cancelled but successful.
CaughtResultCancelledOk(e, prefix) ==
    IF IsCancelError(e)
    THEN Result(TRUE, Some("Authentication was cancelled by user"), TRUE, Null)
    ELSE Result(FALSE, Some(prefix \o MessageOrError(e)), FALSE, Null)

\* The catch block shared by storeCredentials and getStoredCredentials.
CaughtResult(e, prefix) ==
    IF IsCancelError(e)
    THEN Result(FALSE, Some("Authentication was cancelled by user"), TRUE, Null)
    ELSE Result(FALSE, Some(prefix \o MessageOrError(e)), FALSE, Null)

NotAvailableResult ==
    Result(FALSE, Some("Biometric authentication is not available"), FALSE, Null)

NotAvailableOnDevice ==
    Result(FALSE, Some("Biometric authentication is not available on this device"),
           FALSE, Null)

\* BiometricAuthService.getStoredCredentials after the challenge: found is what
\* Keychain.getGenericPassword resolved with (false when the slot is empty).
RetrievedResult(found) ==
    IF IsSome(found)
    THEN Result(TRUE, Null, FALSE, found)
    ELSE Result(FALSE, Some("No stored credentials found"), FALSE, Null)

\* BiometricAuthService.removeStoredCredentials on a resolved reset.
RemovedResult(success) ==
    Result(success,
           IF success THEN Null ELSE Some("Failed to remove stored credentials"),
           FALSE, Null)

----------------------------------------------------------------------------
(* Screens: AppNavigator and the LoginScreen instance.                     *)

\* AppNavigator: the loading view replaces the whole navigator while the
\* session is loading; below it the stack shows Login or MainApp.
LoginVisible(s) == ~s.isLoading /\ ~IsSome(s.user)
MainAppVisible(s) == ~s.isLoading /\ IsSome(s.user)

NoScreen ==
    [mounted |-> FALSE, biometricAttempted |-> FALSE, biometricFailed |-> FALSE,
     showBiometricRetry |-> FALSE, autoAttemptedRef |-> FALSE, timer |-> FALSE]

FreshScreen == [NoScreen EXCEPT !.mounted = TRUE]

\* The condition without its two loading tests.
AutoConditionIgnoresLoading(h, s, scr) ==
    /\ h.isAvailable /\ h.hasStoredCredentials
    /\ ~scr.biometricAttempted /\ ~scr.autoAttemptedRef

\* The condition of the auto-attempt effect.
AutoCondition(h, s, scr) ==
    /\ h.isAvailable /\ h.hasStoredCredentials
    /\ ~s.isLoading /\ ~h.isLoading
    /\ ~scr.biometricAttempted /\ ~scr.autoAttemptedRef

\* The effect with the latch assignment left out.
AutoAttemptEffectNoLatch(h, s, scr) ==
    IF AutoCondition(h, s, scr)
    THEN [screen |-> [scr EXCEPT !.timer = TRUE], scheduled |-> TRUE]
    ELSE [screen |-> scr, scheduled |-> FALSE]

\* One run of the auto-attempt effect on instance scr (any timer of the
\* previous run already cleared by its cleanup).
AutoAttemptEffect(h, s, scr) ==
    IF AutoCondition(h, s, scr)
    THEN [screen |-> [scr EXCEPT !.autoAttemptedRef = TRUE, !.timer = TRUE],
          scheduled |-> TRUE]
    ELSE [screen |-> scr, scheduled |-> FALSE]

\* The commit that follows a task: h2, s2 are the provider's new state and
\* scr2 the instance after the task's own setState calls.  Any change of
\* provider state re-renders AuthProvider, which builds a new biometricLogin,
\* hence a new handleBiometricLogin: the effect's dependencies changed.
Render(h2, s2, scr2) ==
    IF ~LoginVisible(s2)
    THEN [screen |-> NoScreen, scheduled |-> FALSE, lifetime |-> "none"]
    ELSE IF ~screen.mounted
    THEN AutoAttemptEffect(h2, s2, FreshScreen) @@ [lifetime |-> "new"]
    ELSE IF h2 # hook \/ s2 # session
            \/ scr2.biometricAttempted # screen.biometricAttempted
    THEN AutoAttemptEffect(h2, s2, [scr2 EXCEPT !.timer = FALSE])
            @@ [lifetime |-> "same"]
    ELSE [screen |-> scr2, scheduled |-> FALSE, lifetime |-> "same"]

\* Number of timers the current LoginScreen instance has scheduled (0, 1, or
\* 2 for "more than one").
Scheduled(r) ==
    LET base == IF r.lifetime = "same" THEN obs.scheduled ELSE 0
        sum == base + (IF r.scheduled THEN 1 ELSE 0)
    IN  IF sum > 2 THEN 2 ELSE sum

\* An initialize effect without its dependency array and guard: it starts
\* initialize() after every render.
InitEffectStartsEveryRender(h2) == TRUE

\* The hook's initialize effect after a render with state h2: it is re-run
\* when its dependency isInitialized changed, and then starts initialize()
\* unless isInitialized is true.
InitEffectStarts(h2) == h2.isInitialized # hook.isInitialized /\ ~h2.isInitialized

\* Number of initialize() calls the hook instance has started (1, or 2 for
\* "more than one").
Initializations(h2) ==
    IF InitEffectStarts(h2) /\ obs.inits < 2 THEN obs.inits + 1 ELSE obs.inits

\* End of a task: publish the new provider state and render.
Commit(h2, s2, scr2, o2) ==
    LET r == Render(h2, s2, scr2) IN
    /\ hook' = h2
    /\ session' = s2
    /\ screen' = r.screen
    /\ obs' = [o2 EXCEPT !.scheduled = Scheduled(r), !.inits = Initializations(h2)]

----------------------------------------------------------------------------
(* Initial state: the app has rendered once and the hook's mount effect has *)
(* called initialize(), which is awaiting the capability probe.            *)

MaxUserActions == 2

PrefKeys == {"biometric_prompt_shown", "last_username", "biometric_prompt_dismissed"}

IdlePc ==
    [init |-> "probe", cap |-> 0, login |-> "idle", logout |-> "idle",
     bio |-> "idle", store |-> "idle", disable |-> "idle"]

Init ==
    /\ keychain \in {Null} \cup {Some(c) : c \in Credentials}
    /\ prefs \in SUBSET {"biometric_prompt_dismissed"}
    /\ hook = [isAvailable |-> FALSE, biometryType |-> Null, isLoading |-> TRUE,
               hasStoredCredentials |-> FALSE, isInitialized |-> FALSE]
    /\ session = [user |-> Null, isLoading |-> FALSE]
    /\ screen = FreshScreen
    /\ pc = IdlePc
    /\ args = [login |-> Null, store |-> Null, bio |-> Null, keys |-> {}]
    /\ last = [op |-> "none"]
    /\ obs = [scheduled |-> 0, cancelPending |-> FALSE, origin |-> "none",
              reentered |-> FALSE, wiped |-> FALSE, inits |-> 1, actions |-> 0,
              stored |-> Null]

\* A modal Alert (the enable prompt) or the OS biometric sheet is on top:
\* the user cannot reach any other control.
ModalOpen == pc.login = "prompt" \/ pc.bio = "prompt"

\* The user did something on purpose: what came before is no longer "the
\* consequence of" an earlier outcome.
UserActed == [obs EXCEPT !.cancelPending = FALSE, !.actions = @ + 1]

\* The user answered a dialog the app put up.
UserAnswered == [obs EXCEPT !.cancelPending = FALSE]

\* The exploration follows the user through MaxUserActions deliberate actions.
CanAct == obs.actions < MaxUserActions /\ ~ModalOpen

\* A direct call of an exported operation by a consumer other than the app's
\* screens counts for two of them.
CanCall == obs.actions + 2 <= MaxUserActions /\ ~ModalOpen
Called == [UserActed EXCEPT !.actions = @ + 1]

----------------------------------------------------------------------------
(* useBiometricAuth: initialize (mount effect) and checkCapabilities.      *)

\* An initialize() that gives up when the device has no biometrics.
InitStopsWhenUnavailable(caps) == IF caps.isAvailable THEN "has" ELSE "done"

\* Where initialize() goes after the probe returned caps: on to the
\* existence check, whatever the probe said.
InitAfterProbe(caps) == "has"

InitProbeDone(os) ==
    /\ pc.init = "probe"
    /\ LET caps == getBiometricCapabilities(os) IN
       /\ Commit([hook EXCEPT !.isAvailable = caps.isAvailable,
                              !.biometryType = caps.biometryType],
                 session, screen, obs)
       /\ pc' = [pc EXCEPT !.init = InitAfterProbe(caps)]
    /\ UNCHANGED <<keychain, prefs, args, last>>

InitHasDone(rejected) ==
    /\ pc.init = "has"
    /\ Commit([hook EXCEPT !.hasStoredCredentials = hasStoredCredentials(rejected),
                           !.isLoading = FALSE,
                           !.isInitialized = TRUE],
              session, screen, obs)
    /\ pc' = [pc EXCEPT !.init = "done"]
    /\ UNCHANGED <<keychain, prefs, args, last>>

\* checkCapabilities() is called `calls` times in one task through the
\* callback of the current render: every call reads the isLoading that render
\* captured, returns at once when it is true, and otherwise raises isLoading
\* and queries the device.  pc.cap counts the queries in flight.
CheckCapabilities(calls) ==
    /\ CanCall
    /\ pc.cap + calls <= 2
    /\ LET seen == hook.isLoading
           started == IF seen THEN 0 ELSE calls
       IN  /\ Commit([hook EXCEPT !.isLoading = @ \/ started > 0], session, screen,
                     Called)
           /\ pc' = [pc EXCEPT !.cap = @ + started]
           /\ last' = [op |-> "checkCapabilities", seen |-> seen, calls |-> calls,
                       started |-> started]
    /\ UNCHANGED <<keychain, prefs, args>>

\* One query of checkCapabilities() settled: try, catch and finally.
CheckCapabilitiesDone(os) ==
    /\ pc.cap > 0
    /\ LET caps == getBiometricCapabilities(os) IN
       Commit([hook EXCEPT !.isAvailable = caps.isAvailable,
                           !.biometryType = caps.biometryType,
                           !.isLoading = FALSE],
              session, screen, obs)
    /\ pc' = [pc EXCEPT !.cap = @ - 1]
    /\ UNCHANGED <<keychain, prefs, args, last>>

----------------------------------------------------------------------------
(* AuthProvider.login, driven by LoginScreen.handleLogin.                  *)

\* validateForm: both fields non-blank, password of at least 6 characters.
validateForm(username, password) ==
    /\ username # ""
    /\ password # ""
    /\ Len(password) >= 6

\* A login() that compares the username only.
LoginAcceptsAnyPassword(username, password) == username = MOCK_CREDENTIALS.username

\* The credential check of login().
LoginAccepts(username, password) == MatchesMock(username, password)

\* login(username, password) is called: it sets isLoading and awaits the
\* simulated API delay.  via is "form" for handleLogin, which keeps the
\* isBiometricAvailable / hasBiometricCredentials of the render it was created
\* in and continues after login() returns.
LoginCall(username, password, via) ==
    /\ pc.login = "idle"
    /\ Commit(hook, [session EXCEPT !.isLoading = TRUE], screen,
              IF via = "api" THEN Called ELSE UserActed)
    /\ pc' = [pc EXCEPT !.login = "wait"]
    /\ args' = [args EXCEPT !.login =
                   Some([username |-> username, password |-> password, via |-> via,
                         isBiometricAvailable |-> hook.isAvailable,
                         hasBiometricCredentials |-> hook.hasStoredCredentials,
                         beforeLogout |-> FALSE])]
    /\ UNCHANGED <<keychain, prefs, last>>

\* Sign In pressed: handleLogin validates the form and calls login().
HandleLogin(username, password) ==
    /\ screen.mounted
    /\ CanAct
    /\ validateForm(username, password)
    /\ LoginCall(username, password, "form")

\* The delay elapsed: login() decides and returns; on true handleLogin goes
\* on to save the username, on false it shows the 'Login Failed' alert.
LoginDone ==
    /\ pc.login = "wait"
    /\ LET a == args.login[1]
           ok == LoginAccepts(a.username, a.password)
           more == ok /\ a.via = "form"
       IN  /\ Commit(hook,
                     IF ok
                     THEN [user |-> Some(MockUser(a.username)), isLoading |-> FALSE]
                     ELSE [session EXCEPT !.isLoading = FALSE],
                     screen,
                     [obs EXCEPT !.reentered = @ \/ (ok /\ pc.logout # "idle")])
           /\ pc' = [pc EXCEPT !.login = IF more THEN "saveName" ELSE "idle"]
           /\ args' = [args EXCEPT !.login = IF more THEN @ ELSE Null]
           /\ last' = [op |-> "login", value |-> ok,
                       username |-> a.username, password |-> a.password,
                       before |-> session.user, user |-> session'.user,
                       beforeLogout |-> a.beforeLogout]
    /\ UNCHANGED <<keychain, prefs>>

\* UserPreferences.saveLastUsername resolved or was rejected (swallowed);
\* then the enable prompt is considered with the values handleLogin captured.
SaveNameDone(rejected) ==
    /\ pc.login = "saveName"
    /\ prefs' = IF rejected THEN prefs ELSE prefs \cup {"last_username"}
    /\ LET a == args.login[1]
           offer == a.isBiometricAvailable /\ ~a.hasBiometricCredentials
       IN  /\ pc' = [pc EXCEPT !.login = IF offer THEN "dismissed" ELSE "idle"]
           /\ args' = [args EXCEPT !.login = IF offer THEN @ ELSE Null]
    /\ UNCHANGED <<keychain, hook, session, screen, last, obs>>

\* UserPreferences.hasBiometricPromptBeenDismissed: a rejected read is false.
hasBiometricPromptBeenDismissed(rejected) ==
    IF rejected THEN FALSE ELSE "biometric_prompt_dismissed" \in prefs

DismissedCheckDone(rejected) ==
    /\ pc.login = "dismissed"
    /\ LET shown == ~hasBiometricPromptBeenDismissed(rejected) IN
       /\ pc' = [pc EXCEPT !.login = IF shown THEN "prompt" ELSE "idle"]
       /\ args' = [args EXCEPT !.login = IF shown THEN @ ELSE Null]
    /\ UNCHANGED <<keychain, prefs, hook, session, screen, last, obs>>

\* 'Later': setBiometricPromptDismissed is awaited by the button handler.
PromptLater ==
    /\ pc.login = "prompt"
    /\ pc' = [pc EXCEPT !.login = "later"]
    /\ args' = [args EXCEPT !.login = Null]
    /\ obs' = UserAnswered
    /\ UNCHANGED <<keychain, prefs, hook, session, screen, last>>

PromptLaterDone(rejected) ==
    /\ pc.login = "later"
    /\ prefs' = IF rejected THEN prefs ELSE prefs \cup {"biometric_prompt_dismissed"}
    /\ pc' = [pc EXCEPT !.login = "idle"]
    /\ UNCHANGED <<keychain, hook, session, screen, args, last, obs>>

----------------------------------------------------------------------------
(* Enabling: handleEnableBiometric -> enableBiometricLogin ->              *)
(* useBiometricAuth.storeCredentials -> BiometricAuthService.storeCredentials *)

\* The guard of AuthProvider.enableBiometricLogin.
EnableAllowed(isBiometricAvailable) == isBiometricAvailable

\* A storeCredentials without its availability guard.
StoreUnguarded(isAvailable) == TRUE

\* The guard of the hook's storeCredentials.
StoreAllowed(isAvailable) == isAvailable

\* The guard of the service's storeCredentials on its own fresh probe.
ServiceStoreAllowed(caps) == caps.isAvailable

\* A call of enableBiometricLogin (layer "context") or of the hook's
\* storeCredentials (layer "hook") whose closure saw isAvailable = seen.
\* after is what the caller does on success: "flags" for
\* handleEnableBiometric, "return" otherwise.
StoreCall(username, password, layer, seen, after, o2) ==
    LET go == (layer = "hook" \/ EnableAllowed(seen)) /\ StoreAllowed(seen) IN
    /\ pc.store = "idle"
    /\ pc' = [pc EXCEPT !.login = IF @ = "prompt" THEN "idle" ELSE @,
                        !.store = IF go THEN "probe" ELSE "idle"]
    /\ args' = [args EXCEPT
                  !.login = IF pc.login = "prompt" THEN Null ELSE @,
                  !.store = IF go
                            THEN Some([username |-> username, password |-> password,
                                       after |-> after, seen |-> seen,
                                       probed |-> FALSE])
                            ELSE Null]
    /\ last' = IF go THEN last
               ELSE [op |-> "store", result |-> NotAvailableOnDevice,
                     capable |-> seen, writeCalled |-> FALSE]
    /\ obs' = o2
    /\ UNCHANGED <<keychain, prefs, hook, session, screen>>

\* 'Enable' pressed on the prompt: handleEnableBiometric(username, password)
\* with the closures of the render handleLogin was created in.
PromptEnable ==
    /\ pc.login = "prompt"
    /\ LET a == args.login[1] IN
       StoreCall(a.username, a.password, "context", a.isBiometricAvailable, "flags",
                 UserAnswered)

StoreProbeDone(os) ==
    /\ pc.store = "probe"
    /\ LET caps == getBiometricCapabilities(os)
           go == ServiceStoreAllowed(caps)
       IN
       /\ pc' = [pc EXCEPT !.store = IF go THEN "write" ELSE "idle"]
       /\ args' = [args EXCEPT !.store =
                     IF go THEN Some([@[1] EXCEPT !.probed = caps.isAvailable])
                     ELSE Null]
       /\ last' = IF go THEN last
                  ELSE [op |-> "store", result |-> NotAvailableResult,
                        capable |-> args.store[1].seen /\ caps.isAvailable,
                        writeCalled |-> FALSE]
    /\ UNCHANGED <<keychain, prefs, hook, session, screen, obs>>

\* Keychain.setGenericPassword resolved: with a result (the slot is
\* overwritten) or with false (nothing written); the service reports success
\* for both.  The hook then awaits a fresh existence check.
StoreWriteDone(written) ==
    /\ pc.store = "write"
    /\ keychain' = IF written
                   THEN Some([username |-> args.store[1].username,
                              password |-> args.store[1].password])
                   ELSE keychain
    /\ pc' = [pc EXCEPT !.store = "has"]
    /\ obs' = [obs EXCEPT !.wiped = @ /\ ~written]
    /\ UNCHANGED <<prefs, hook, session, screen, args, last>>

\* Keychain.setGenericPassword rejected.
StoreWriteFailed(e) ==
    /\ pc.store = "write"
    /\ pc' = [pc EXCEPT !.store = "idle"]
    /\ args' = [args EXCEPT !.store = Null]
    /\ last' = [op |-> "store",
                result |-> CaughtResult(e, "Failed to store credentials: "),
                capable |-> args.store[1].seen /\ args.store[1].probed,
                writeCalled |-> TRUE]
    /\ UNCHANGED <<keychain, prefs, hook, session, screen, obs>>

\* An optimistic assignment in place of the existence check.
StoredFlagOptimistic(rejected) == TRUE

\* What the hook assigns to hasStoredCredentials after a successful store.
StoredFlagAfterStore(rejected) == hasStoredCredentials(rejected)

\* The existence check resolved; storeCredentials returns the success result
\* and handleEnableBiometric goes on to the preference flags.
StoreHasDone(rejected) ==
    /\ pc.store = "has"
    /\ Commit([hook EXCEPT !.hasStoredCredentials = StoredFlagAfterStore(rejected)],
              session, screen,
              [obs EXCEPT !.stored = Some([username |-> args.store[1].username,
                                           password |-> args.store[1].password])])
    /\ pc' = [pc EXCEPT !.store =
                 IF args.store[1].after = "flags" THEN "clearDismissed" ELSE "idle"]
    /\ args' = [args EXCEPT !.store = Null]
    /\ last' = [op |-> "store", result |-> Result(TRUE, Null, FALSE, Null),
                capable |-> args.store[1].seen /\ args.store[1].probed,
                writeCalled |-> TRUE,
                checkRejected |-> rejected, found |-> IsSome(keychain),
                flag |-> hook'.hasStoredCredentials]
    /\ UNCHANGED <<keychain, prefs>>

ClearDismissedDone(rejected) ==
    /\ pc.store = "clearDismissed"
    /\ prefs' = IF rejected THEN prefs ELSE prefs \ {"biometric_prompt_dismissed"}
    /\ pc' = [pc EXCEPT !.store = "setShown"]
    /\ UNCHANGED <<keychain, hook, session, screen, args, last, obs>>

SetShownDone(rejected) ==
    /\ pc.store = "setShown"
    /\ prefs' = IF rejected THEN prefs ELSE prefs \cup {"biometric_prompt_shown"}
    /\ pc' = [pc EXCEPT !.store = "idle"]
    /\ UNCHANGED <<keychain, hook, session, screen, args, last, obs>>

----------------------------------------------------------------------------
(* Removal: useBiometricAuth.removeStoredCredentials over                  *)
(* BiometricAuthService.removeStoredCredentials.                           *)

\* What Keychain.resetGenericPassword can do: resolve true (slot deleted),
\* resolve false (nothing deleted) or reject.
RemoveOutcomes ==
    {[rejected |-> FALSE, success |-> TRUE], [rejected |-> FALSE, success |-> FALSE]}
        \cup {[rejected |-> TRUE, success |-> FALSE, error |-> e] : e \in OsErrors}

removeStoredCredentials(os) ==
    IF os.rejected
    THEN Result(FALSE, Some("Failed to remove credentials: " \o MessageOrError(os.error)),
                FALSE, Null)
    ELSE RemovedResult(os.success)

\* An update that lowers the flag whatever the service returned.
StoredFlagLoweredByRemove(result) == FALSE

\* The hook's update after the service returned result.
StoredFlagAfterRemove(result) ==
    IF result.success THEN FALSE ELSE hook.hasStoredCredentials

\* The pair of the last storeCredentials that returned success, forgotten
\* once a removal reports that it deleted the slot.
StoredAfterRemove(result) == IF result.success THEN Null ELSE obs.stored

\* A reset that deletes nothing.
KeychainKeptByRemove(os) == keychain

\* The slot after Keychain.resetGenericPassword settled with os.
KeychainAfterRemove(os) == IF ~os.rejected /\ os.success THEN Null ELSE keychain

----------------------------------------------------------------------------
(* AuthProvider.logout (Settings screen, after the confirmation alert).    *)

\* A logout() that does not clear the user.
UserKeptByLogout == session.user

\* The user state logout() leaves behind in its first step.
UserAfterLogout == Null

\* args after logout() ran: a login() awaiting its delay and a
\* biometricLogin() awaiting its result were invoked before this logout.
MarkedBeforeLogout ==
    [args EXCEPT
        !.login = IF pc.login = "wait"
                  THEN Some([@[1] EXCEPT !.beforeLogout = TRUE]) ELSE @,
        !.bio = IF pc.bio # "idle" /\ @[1].via = "login"
                THEN Some([@[1] EXCEPT !.beforeLogout = TRUE]) ELSE @]

\* logout() is called: setUser(null), then the removal is awaited.
LogoutCall ==
    /\ CanAct
    /\ pc.logout = "idle"
    /\ Commit(hook, [session EXCEPT !.user = UserAfterLogout], screen,
              [UserActed EXCEPT !.reentered = FALSE, !.wiped = FALSE])
    /\ pc' = [pc EXCEPT !.logout = "remove"]
    /\ args' = MarkedBeforeLogout
    /\ UNCHANGED <<keychain, prefs, last>>

\* Logout confirmed on the Settings screen.
Logout ==
    /\ MainAppVisible(session)
    /\ LogoutCall

\* A logout() that gives up when the removal failed.
LogoutStopsOnFailure(result) == IF result.success THEN "keys" ELSE "idle"

\* Where logout() goes after the removal returned result: the result is only
\* logged.
LogoutAfterRemove(result) == "keys"

LogoutRemoveDone(os) ==
    /\ pc.logout = "remove"
    /\ keychain' = KeychainAfterRemove(os)
    /\ LET result == removeStoredCredentials(os) IN
       /\ Commit([hook EXCEPT !.hasStoredCredentials = StoredFlagAfterRemove(result)],
              session, screen,
              [obs EXCEPT !.wiped = ~os.rejected /\ os.success,
                          !.stored = StoredAfterRemove(result)])
       /\ last' = [op |-> "remove", result |-> result, available |-> hook.isAvailable]
       /\ pc' = [pc EXCEPT !.logout = LogoutAfterRemove(result)]
    /\ UNCHANGED <<prefs, args>>

\* clearAllAppData: AsyncStorage.getAllKeys resolved or rejected (swallowed).
LogoutKeysDone(rejected) ==
    /\ pc.logout = "keys"
    /\ LET remove == ~rejected /\ prefs # {} IN
       /\ pc' = [pc EXCEPT !.logout = IF remove THEN "multiRemove" ELSE "check"]
       /\ args' = [args EXCEPT !.keys = IF remove THEN prefs ELSE {}]
    /\ UNCHANGED <<keychain, prefs, hook, session, screen, last, obs>>

LogoutMultiRemoveDone(rejected) ==
    /\ pc.logout = "multiRemove"
    /\ prefs' = IF rejected THEN prefs ELSE prefs \ args.keys
    /\ pc' = [pc EXCEPT !.logout = "check"]
    /\ args' = [args EXCEPT !.keys = {}]
    /\ UNCHANGED <<keychain, hook, session, screen, last, obs>>

\* checkStoredCredentials, then logout() returns.
LogoutCheckDone(rejected) ==
    /\ pc.logout = "check"
    /\ Commit([hook EXCEPT !.hasStoredCredentials = hasStoredCredentials(rejected)],
              session, screen, obs)
    /\ pc' = [pc EXCEPT !.logout = "idle"]
    /\ last' = [op |-> "logout"]
    /\ UNCHANGED <<keychain, prefs, args>>

----------------------------------------------------------------------------
(* AuthProvider.disableBiometricLogin (Settings switch, after its alert).  *)

Disable ==
    /\ MainAppVisible(session)
    /\ CanAct
    /\ hook.isAvailable /\ hook.hasStoredCredentials
    /\ pc.disable = "idle"
    /\ pc' = [pc EXCEPT !.disable = "remove"]
    /\ obs' = UserActed
    /\ UNCHANGED <<keychain, prefs, hook, session, screen, args, last>>

DisableDone(os) ==
    /\ pc.disable = "remove"
    /\ keychain' = KeychainAfterRemove(os)
    /\ LET result == removeStoredCredentials(os) IN
       /\ Commit([hook EXCEPT !.hasStoredCredentials = StoredFlagAfterRemove(result)],
                 session, screen, [obs EXCEPT !.stored = StoredAfterRemove(result)])
       /\ last' = [op |-> "remove", result |-> result, available |-> hook.isAvailable]
    /\ pc' = [pc EXCEPT !.disable = "idle"]
    /\ UNCHANGED <<prefs, args>>

----------------------------------------------------------------------------
(* Biometric login: LoginScreen.handleBiometricLogin ->                    *)
(* AuthProvider.biometricLogin -> useBiometricAuth.authenticateWithBiometrics *)
(* -> BiometricAuthService.getStoredCredentials.                           *)

\* The guard of AuthProvider.biometricLogin.
BiometricLoginAllowed(h) == h.isAvailable /\ h.hasStoredCredentials

\* An authenticateWithBiometrics without its stored-credential guard.
AuthenticateUnguarded(h) == h.isAvailable

\* The two guards of the hook's authenticateWithBiometrics.
AuthenticateAllowed(h) == h.isAvailable /\ h.hasStoredCredentials

\* The guard of the service's getStoredCredentials on its own fresh probe.
ServiceRetrieveAllowed(caps) == caps.isAvailable

\* A biometricLogin that trusts whatever credential was retrieved.
BiometricLoginTrusts(result) == result.success

\* The revalidation of biometricLogin on the result of authenticate.
BiometricLoginAccepts(result) ==
    /\ result.success
    /\ IsSome(result.credentials)
    /\ MatchesMock(result.credentials[1].username, result.credentials[1].password)

\* A biometricLogin that returns false without lowering the loading flag.
SessionLeftLoading(s) == s

\* The session after biometricLogin() got a result it does not accept:
\* setIsLoading(false); return false.
SessionAfterFailedAttempt(s) == [s EXCEPT !.isLoading = FALSE]

\* A call of biometricLogin() (via "login") or of the hook's
\* authenticateWithBiometrics() (via "hook"); scr2 is the calling screen after
\* its own setState calls, scrFalse what it becomes if false comes back at
\* once, o2 the observations.
AuthenticateCall(via, scr2, scrFalse, o2) ==
    LET seen == [isAvailable |-> hook.isAvailable,
                 hasStoredCredentials |-> hook.hasStoredCredentials]
    IN
    /\ pc.bio = "idle"
    /\ IF via = "login" /\ ~BiometricLoginAllowed(hook)
       THEN /\ Commit(hook, session, scrFalse, o2)
            /\ pc' = pc
            /\ args' = args
            /\ last' = [op |-> "biometricLogin", value |-> FALSE, seen |-> seen,
                        authenticated |-> FALSE, retrieveCalled |-> FALSE,
                        before |-> session.user, user |-> session.user,
                        beforeLogout |-> FALSE]
       ELSE /\ Commit(hook,
                      IF via = "login" THEN [session EXCEPT !.isLoading = TRUE]
                      ELSE session,
                      scr2, o2)
            /\ pc' = [pc EXCEPT !.bio = IF AuthenticateAllowed(hook)
                                        THEN "probe" ELSE "refused"]
            /\ args' = [args EXCEPT !.bio =
                          Some([via |-> via, seen |-> seen, retrieveCalled |-> FALSE,
                                beforeLogout |-> FALSE])]
            /\ last' = last
    /\ UNCHANGED <<keychain, prefs>>

\* authenticate() has its result: the hook hands it to its caller, and
\* biometricLogin() revalidates the credential, sets the session and returns.
\* The LoginScreen instance that called was unmounted when isLoading rose, so
\* the setState calls of handleBiometricLogin's continuation reach no screen.
AuthenticateReturn(result) ==
    LET a == args.bio[1]
        ok == BiometricLoginAccepts(result)
    IN
    /\ IF a.via = "login"
       THEN /\ Commit(hook,
                      IF ok
                      THEN [user |-> Some(MockUser(result.credentials[1].username)),
                            isLoading |-> FALSE]
                      ELSE SessionAfterFailedAttempt(session),
                      screen,
                      [obs EXCEPT !.cancelPending = result.cancelled,
                                  !.reentered = @ \/ (ok /\ pc.logout # "idle")])
            /\ last' = [op |-> "biometricLogin", value |-> ok, seen |-> a.seen,
                        authenticated |-> TRUE, result |-> result,
                        retrieveCalled |-> a.retrieveCalled,
                        before |-> session.user, user |-> session'.user,
                        beforeLogout |-> a.beforeLogout]
       ELSE /\ UNCHANGED <<hook, session, screen, obs>>
            /\ last' = [op |-> "authenticate", result |-> result, seen |-> a.seen,
                        retrieveCalled |-> a.retrieveCalled]
    /\ pc' = [pc EXCEPT !.bio = "idle"]
    /\ args' = [args EXCEPT !.bio = Null]
    /\ UNCHANGED <<keychain, prefs>>

\* The hook's guard refused: its failure result comes back without any
\* service call.
AuthenticateRefused ==
    /\ pc.bio = "refused"
    /\ AuthenticateReturn(
         IF ~args.bio[1].seen.isAvailable
         THEN NotAvailableOnDevice
         ELSE Result(FALSE,
                     Some("No stored credentials found. Please login with username and password first."),
                     FALSE, Null))

\* The service's probe resolved: unavailable ends the call, available shows
\* the challenge (Keychain.getGenericPassword).
RetrieveProbeDone(os) ==
    /\ pc.bio = "probe"
    /\ IF ServiceRetrieveAllowed(getBiometricCapabilities(os))
       THEN /\ pc' = [pc EXCEPT !.bio = "prompt"]
            /\ args' = [args EXCEPT !.bio = Some([@[1] EXCEPT !.retrieveCalled = TRUE])]
            /\ UNCHANGED <<keychain, prefs, hook, session, screen, last, obs>>
       ELSE AuthenticateReturn(NotAvailableResult)

\* The challenge was passed: getGenericPassword resolves with the slot, or
\* with false when the slot is empty.
ChallengePassed ==
    /\ pc.bio = "prompt"
    /\ AuthenticateReturn(RetrievedResult(keychain))

\* The challenge was cancelled or failed: getGenericPassword rejects.
ChallengeFailed(e) ==
    /\ pc.bio = "prompt"
    /\ AuthenticateReturn(CaughtResult(e, "Failed to retrieve credentials: "))

\* handleBiometricLogin on the mounted LoginScreen instance.
HandleBiometricLogin(origin) ==
    LET scr2 == [screen EXCEPT !.biometricAttempted = TRUE,
                               !.biometricFailed = FALSE,
                               !.showBiometricRetry = FALSE]
        scrFalse == [scr2 EXCEPT !.biometricFailed = TRUE,
                                 !.showBiometricRetry = TRUE]
    IN  AuthenticateCall("login", scr2, scrFalse,
                         IF origin = "manual"
                         THEN [UserActed EXCEPT !.origin = origin]
                         ELSE [obs EXCEPT !.origin = origin])

\* The biometric button (or, after a failure, the retry button) is pressed.
BiometricButton ==
    /\ screen.mounted
    /\ CanAct
    /\ hook.isAvailable /\ hook.hasStoredCredentials
    /\ ~session.isLoading /\ ~hook.isLoading
    /\ screen.showBiometricRetry \/ ~screen.biometricAttempted
    /\ HandleBiometricLogin("manual")

\* The 500 ms timer of the auto-attempt effect fires.
AutoAttemptTimer ==
    /\ screen.timer
    /\ HandleBiometricLogin("auto")

----------------------------------------------------------------------------
(* The app as shipped.                                                     *)

\* Every step but the three existence checks.
AppSteps ==
    \/ \E os \in ProbeOutcomes : InitProbeDone(os)
    \/ \E u \in Usernames \cup {""}, p \in Passwords \cup {""} : HandleLogin(u, p)
    \/ LoginDone
    \/ \E rejected \in BOOLEAN : SaveNameDone(rejected)
    \/ \E rejected \in BOOLEAN : DismissedCheckDone(rejected)
    \/ PromptLater
    \/ \E rejected \in BOOLEAN : PromptLaterDone(rejected)
    \/ PromptEnable
    \/ \E os \in ProbeOutcomes : StoreProbeDone(os)
    \/ \E written \in BOOLEAN : StoreWriteDone(written)
    \/ \E e \in OsErrors : StoreWriteFailed(e)
    \/ \E rejected \in BOOLEAN : ClearDismissedDone(rejected)
    \/ \E rejected \in BOOLEAN : SetShownDone(rejected)
    \/ Logout
    \/ \E os \in RemoveOutcomes : LogoutRemoveDone(os)
    \/ \E rejected \in BOOLEAN : LogoutKeysDone(rejected)
    \/ \E rejected \in BOOLEAN : LogoutMultiRemoveDone(rejected)
    \/ Disable
    \/ \E os \in RemoveOutcomes : DisableDone(os)
    \/ BiometricButton
    \/ AutoAttemptTimer
    \/ \E os \in ProbeOutcomes : RetrieveProbeDone(os)
    \/ ChallengePassed
    \/ \E e \in OsErrors : ChallengeFailed(e)

\* The existence checks of initialize(), storeCredentials() and logout();
\* the keychain's query is rejected or not.
ExistenceChecks(outcomes) ==
    \/ \E rejected \in outcomes : InitHasDone(rejected)
    \/ \E rejected \in outcomes : StoreHasDone(rejected)
    \/ \E rejected \in outcomes : LogoutCheckDone(rejected)

Next == AppSteps \/ ExistenceChecks(BOOLEAN)

Spec == Init /\ [][Next]_vars

----------------------------------------------------------------------------
(* The provider and the hook driven directly by any consumer of their      *)
(* exported operations, next to the app's own screens.                     *)

ApiLogin(username, password) ==
    /\ CanCall
    /\ LoginCall(username, password, "api")

ApiBiometricLogin ==
    /\ CanCall
    /\ AuthenticateCall("login", screen, screen, [Called EXCEPT !.origin = "manual"])

ApiAuthenticate ==
    /\ CanCall
    /\ AuthenticateCall("hook", screen, screen, Called)

ApiStore(username, password, layer) ==
    /\ CanCall
    /\ StoreCall(username, password, layer, hook.isAvailable, "return", Called)

\* logout() called by a consumer while a login() or biometricLogin() is
\* awaiting its result.
ApiLogout ==
    /\ pc.login = "wait" \/ (pc.bio # "idle" /\ args.bio[1].via = "login")
    /\ LogoutCall

ApiNext ==
    \/ \E p \in Passwords : ApiLogin(MOCK_CREDENTIALS.username, p)
    \/ ApiBiometricLogin
    \/ ApiAuthenticate
    \/ \E layer \in {"context", "hook"} : ApiStore("guest", "password123", layer)
    \/ AuthenticateRefused
    \/ \E calls \in {1, 2} : CheckCapabilities(calls)
    \/ \E os \in ProbeOutcomes : CheckCapabilitiesDone(os)
    \/ ApiLogout

ApiSpec == Init /\ [][Next \/ ApiNext]_vars

----------------------------------------------------------------------------
(* The same, with a keychain whose existence query always answers.         *)

FaithfulNext == AppSteps \/ ApiNext \/ ExistenceChecks({FALSE})

FaithfulSpec == Init /\ [][FaithfulNext]_vars

----------------------------------------------------------------------------
(* BiometricErrorHandler: parseError and showErrorDialog, as pure functions *)
(* of an error value and of the handlers passed.  The Vietnamese texts are  *)
(* written without their diacritics.                                       *)

UpperCase == <<"A", "B", "C", "D", "E", "F", "G", "H", "I", "J", "K", "L", "M",
               "N", "O", "P", "Q", "R", "S", "T", "U", "V", "W", "X", "Y", "Z">>
LowerCase == <<"a", "b", "c", "d", "e", "f", "g", "h", "i", "j", "k", "l", "m",
               "n", "o", "p", "q", "r", "s", "t", "u", "v", "w", "x", "y", "z">>

LowerChar(c) ==
    IF \E i \in 1..26 : UpperCase[i] = c
    THEN LowerCase[CHOOSE i \in 1..26 : UpperCase[i] = c]
    ELSE c

RECURSIVE LowerFrom(_, _)
LowerFrom(s, i) ==
    IF i > Len(s) THEN "" ELSE LowerChar(SubSeq(s, i, i)) \o LowerFrom(s, i + 1)

\* A classifier that compares the text as written.
KeepCase(s) == s

\* String.prototype.toLowerCase
toLowerCase(s) == LowerFrom(s, 1)

\* error?.message || error?.toString() || 'Unknown error' : error is null, an
\* Error object (whose toString() is "Error" when the message is empty) or a
\* string.
ErrorMessage(error) ==
    IF error = Null THEN "Unknown error"
    ELSE LET e == error[1]
         IN  IF e.hasMessage /\ e.text # "" THEN e.text
             ELSE IF e.hasMessage THEN "Error"
             ELSE IF e.text # "" THEN e.text
             ELSE "Unknown error"

Rule(code, first, second, userMessage, recoverable) ==
    [code |-> code, needles |-> {first, second}, userMessage |-> userMessage,
     recoverable |-> recoverable]

\* A rule list that looks for a sensor problem before a failed attempt.
ClassifierRulesHardwareFirst ==
    << Rule("USER_CANCELLED", "cancel", "user cancel", "Xac thuc da bi huy.", TRUE),
       Rule("NOT_AVAILABLE", "not available", "not supported",
            "Dang nhap sinh trac hoc khong kha dung tren thiet bi nay.", FALSE),
       Rule("NOT_ENROLLED", "not enrolled", "no biometric",
            "Chua thiet lap dang nhap sinh trac hoc tren thiet bi nay. Vui long thiet lap trong cai dat thiet bi.",
            FALSE),
       Rule("HARDWARE_ERROR", "hardware", "sensor",
            "Cam bien sinh trac hoc khong kha dung. Vui long thu lai sau.", TRUE),
       Rule("AUTH_FAILED", "authentication failed", "failed",
            "Dang nhap sinh trac hoc that bai. Vui long thu lai.", TRUE),
       Rule("LOCKOUT", "too many", "lockout",
            "Qua nhieu lan thu that bai. Vui long thu lai sau hoac su dung mat khau thiet bi.",
            FALSE),
       Rule("SYSTEM_ERROR", "system", "internal",
            "Da xay ra loi he thong. Vui long thu lai.", TRUE) >>

\* The if-chain of parseError, in source order: each rule returns when the
\* lower-cased message includes one of its two needles.
ClassifierRules ==
    << Rule("USER_CANCELLED", "cancel", "user cancel", "Xac thuc da bi huy.", TRUE),
       Rule("NOT_AVAILABLE", "not available", "not supported",
            "Dang nhap sinh trac hoc khong kha dung tren thiet bi nay.", FALSE),
       Rule("NOT_ENROLLED", "not enrolled", "no biometric",
            "Chua thiet lap dang nhap sinh trac hoc tren thiet bi nay. Vui long thiet lap trong cai dat thiet bi.",
            FALSE),
       Rule("AUTH_FAILED", "authentication failed", "failed",
            "Dang nhap sinh trac hoc that bai. Vui long thu lai.", TRUE),
       Rule("LOCKOUT", "too many", "lockout",
            "Qua nhieu lan thu that bai. Vui long thu lai sau hoac su dung mat khau thiet bi.",
            FALSE),
       Rule("HARDWARE_ERROR", "hardware", "sensor",
            "Cam bien sinh trac hoc khong kha dung. Vui long thu lai sau.", TRUE),
       Rule("SYSTEM_ERROR", "system", "internal",
            "Da xay ra loi he thong. Vui long thu lai.", TRUE) >>

\* The final return of parseError.
GenericError ==
    [code |-> "UNKNOWN_ERROR",
     userMessage |-> "Da xay ra loi khong mong muon trong qua trinh xac thuc sinh trac hoc.",
     recoverable |-> TRUE]

RuleMatches(rule, lowerMessage) == \E n \in rule.needles : Includes(lowerMessage, n)

parseError(error) ==
    LET errorMessage == ErrorMessage(error)
        lowerMessage == toLowerCase(errorMessage)
        hits         == {i \in 1..Len(ClassifierRules) :
                            RuleMatches(ClassifierRules[i], lowerMessage)}
        found        == IF hits = {} THEN GenericError
                        ELSE ClassifierRules[CHOOSE i \in hits : \A j \in hits : i <= j]
    IN  [code |-> found.code, message |-> errorMessage,
         userMessage |-> found.userMessage, recoverable |-> found.recoverable]

\* The title chosen by the switch of showErrorDialog.
DialogTitle(code) ==
    CASE code = "NOT_AVAILABLE"  -> "Sinh trac hoc khong kha dung"
      [] code = "NOT_ENROLLED"   -> "Chua thiet lap sinh trac hoc"
      [] code = "AUTH_FAILED"    -> "Dang nhap sinh trac hoc that bai"
      [] code = "LOCKOUT"        -> "Qua nhieu lan thu"
      [] code = "HARDWARE_ERROR" -> "Loi cam bien"
      [] code = "SYSTEM_ERROR"   -> "Loi he thong"
      [] OTHER                   -> "Loi xac thuc"

\* A dialog that offers the retry whenever a retry handler was passed.
RetryOfferedAlways(error, onRetry) == onRetry

\* if (error.recoverable && onRetry)
RetryOffered(error, onRetry) == error.recoverable /\ onRetry

\* case 'USER_CANCELLED': return;
DialogSuppressed(error) == error.code = "USER_CANCELLED"

\* The buttons array handed to Alert.alert; a handler is modelled by whether
\* it was passed, a button by its text, its style and the handler it calls.
DialogButtons(error, onRetry, onFallback) ==
    LET fallback == IF onFallback
                    THEN <<[text |-> "Dung mat khau", style |-> "default",
                            onPress |-> "onFallback"]>>
                    ELSE <<>>
        retry    == IF RetryOffered(error, onRetry)
                    THEN <<[text |-> "Thu lai", style |-> "default",
                            onPress |-> "onRetry"]>>
                    ELSE <<>>
        buttons  == fallback \o retry
    IN  buttons \o <<[text |-> IF Len(buttons) > 0 THEN "Huy" ELSE "OK",
                      style |-> "cancel", onPress |-> "none"]>>

\* showErrorDialog: Null when no Alert is put up.  The biometricType argument
\* only feeds getBiometricTypeName, whose value the dialog does not use.
showErrorDialog(error, onRetry, onFallback) ==
    IF DialogSuppressed(error) THEN Null
    ELSE Some([title |-> DialogTitle(error.code), message |-> error.userMessage,
               buttons |-> DialogButtons(error, onRetry, onFallback)])

\* Error texts: up to MaxFragments fragments joined by a blank.  The fragments
\* are the classifier's needles in several letter cases, and neutral words.
MaxFragments == 2

Fragments ==
    {"cancel", "Cancelled", "CANCEL", "not available", "Not Supported",
     "not enrolled", "No Biometric", "failed", "Too many", "lockout",
     "hardware", "Sensor", "system", "internal", "timeout"}

RECURSIVE TextsOf(_)
TextsOf(n) ==
    IF n = 0 THEN {""}
    ELSE LET shorter == TextsOf(n - 1)
         IN  shorter \cup {IF t = "" THEN f ELSE t \o " " \o f :
                              t \in shorter, f \in Fragments}

ErrorValues ==
    {Null} \cup {Some([hasMessage |-> m, text |-> t]) :
                    m \in BOOLEAN, t \in TextsOf(MaxFragments)}

ClassifyInit ==
    /\ keychain = Null
    /\ prefs = {}
    /\ hook = [isAvailable |-> FALSE, biometryType |-> Null, isLoading |-> TRUE,
               hasStoredCredentials |-> FALSE, isInitialized |-> FALSE]
    /\ session = [user |-> Null, isLoading |-> FALSE]
    /\ screen = FreshScreen
    /\ pc = IdlePc
    /\ args \in {[error |-> e] : e \in ErrorValues}
    /\ last = [op |-> "none"]
    /\ obs = [scheduled |-> 0, cancelPending |-> FALSE, origin |-> "none",
              reentered |-> FALSE, wiped |-> FALSE, inits |-> 1, actions |-> 0,
              stored |-> Null]

ParseError ==
    /\ last.op = "none"
    /\ last' = [op |-> "parseError", error |-> parseError(args.error)]
    /\ UNCHANGED <<keychain, prefs, hook, session, screen, pc, args, obs>>

ShowErrorDialog(onRetry, onFallback) ==
    /\ last.op = "parseError"
    /\ last' = [op |-> "showErrorDialog", error |-> last.error,
                onRetry |-> onRetry, onFallback |-> onFallback,
                dialog |-> showErrorDialog(last.error, onRetry, onFallback)]
    /\ UNCHANGED <<keychain, prefs, hook, session, screen, pc, args, obs>>

\* The prefixes of the two catch blocks that set cancelled.
CatchPrefixes ==
    [store |-> "Failed to store credentials: ",
     retrieve |-> "Failed to retrieve credentials: "]

\* The catch block of storeCredentials or getStoredCredentials applied to a
\* thrown value, and parseError applied to the error text of its result (a
\* string: no message field).
CatchAndClassify(operation) ==
    /\ last.op = "none"
    /\ IsSome(args.error)
    /\ LET result == CaughtResult(args.error[1], CatchPrefixes[operation])
       IN  last' = [op |-> "catch", operation |-> operation, result |-> result,
                    error |-> parseError(Some([hasMessage |-> FALSE,
                                               text |-> result.error[1]]))]
    /\ UNCHANGED <<keychain, prefs, hook, session, screen, pc, args, obs>>

ClassifyNext ==
    \/ ParseError
    \/ \E operation \in {"store", "retrieve"} : CatchAndClassify(operation)
    \/ \E onRetry \in BOOLEAN, onFallback \in BOOLEAN :
          ShowErrorDialog(onRetry, onFallback)

ClassifySpec == ClassifyInit /\ [][ClassifyNext]_vars

----------------------------------------------------------------------------
(* Properties.                                                             *)

\* The conditions of the automatic attempt apart from the latch, on the
\* mounted LoginScreen instance.
AutoDue ==
    /\ screen.mounted
    /\ hook.isAvailable /\ hook.hasStoredCredentials
    /\ ~session.isLoading /\ ~hook.isLoading
    /\ ~screen.biometricAttempted

\* C1: after a challenge started from the login screen ended in user
\* cancellation, no biometric challenge is on screen before the user has
\* acted again (cancelPending is lowered by every user action).
C1_NoChallengeAfterCancel == obs.cancelPending => pc.bio # "prompt"

\* C2: within one LoginScreen lifetime at most one automatic attempt is
\* scheduled, and whenever one is pending the latch is already set.
C2_AtMostOneAutoAttempt ==
    /\ obs.scheduled <= 1
    /\ screen.timer => screen.autoAttemptedRef

\* The effect was re-evaluated after its one scheduling: the conditions hold
\* again, the latch is set and nothing further was scheduled.
C2_Witness ==
    /\ AutoDue
    /\ screen.autoAttemptedRef
    /\ ~screen.timer
    /\ obs.scheduled = 1

\* C3: whenever capability is available, a credential is present, nothing
\* is loading and this LoginScreen instance has made no attempt, its one
\* automatic attempt is pending (it was scheduled and not lost).
C3_AutoAttemptPendingWhenDue == AutoDue => screen.timer

\* C4 as stated: when logout() has completed the user is null.
C4_LogoutLeavesNoUser == last.op = "logout" => session.user = Null

\* C4: when logout() has completed the user is null, whatever failed in its
\* cleanup, unless a login() or biometricLogin() succeeded after logout()
\* had cleared the user.
C4_LogoutLeavesNoUserUnlessReentered ==
    last.op = "logout" /\ ~obs.reentered => session.user = Null

\* logout() completed with the removal having failed (the slot is still
\* occupied and the re-check saw it) and the user is null.
C4_Witness ==
    /\ last.op = "logout"
    /\ ~obs.reentered
    /\ ~obs.wiped
    /\ IsSome(keychain) /\ hook.hasStoredCredentials
    /\ session.user = Null

RefusedState(seen) == ~seen.isAvailable \/ ~seen.hasStoredCredentials

\* C6: authenticate() called while hasStoredCredentials is false or the
\* capability is unavailable returns a failure without credential and has
\* not called the keychain's retrieve; the same for biometricLogin().
C6_AuthenticateRefusesWithoutRetrieve ==
    /\ last.op = "authenticate" /\ RefusedState(last.seen)
         => /\ ~last.result.success
            /\ last.result.credentials = Null
            /\ ~last.retrieveCalled
    /\ last.op = "biometricLogin" /\ RefusedState(last.seen)
         => ~last.value /\ ~last.retrieveCalled

\* authenticate() returned after a call made with no stored credential.
C6_Witness ==
    /\ last.op = "authenticate"
    /\ last.seen.isAvailable
    /\ ~last.seen.hasStoredCredentials

\* C7: a store made while the capability is unavailable (in the hook's
\* state or on the service's own probe) returns a failure with an error
\* text and has not called the keychain's write.
C7_StoreRefusesWithoutWrite ==
    last.op = "store" /\ ~last.capable
        => /\ ~last.result.success
           /\ IsSome(last.result.error)
           /\ ~last.writeCalled

\* The hook refused a store because isAvailable was false.
C7_Witness ==
    /\ last.op = "store"
    /\ ~last.capable
    /\ last.result = NotAvailableOnDevice

\* C8 as stated: after a store returned success hasStoredCredentials was
\* set to true.
C8_StoreSetsFlagTrue ==
    last.op = "store" /\ last.result.success => last.flag

\* C8: after a store returned success hasStoredCredentials was set to what
\* the existence check made after the write reported: true exactly when
\* that check resolved and found the slot occupied.
C8_StoreSetsFlagFromCheck ==
    last.op = "store" /\ last.result.success
        => last.flag = (~last.checkRejected /\ last.found)

\* A store returned success and the check after the write found the slot.
C8_Witness ==
    /\ last.op = "store"
    /\ last.result.success
    /\ last.flag
    /\ hook.hasStoredCredentials

\* C9: login() returned true exactly when its arguments were the fixed
\* pair, and then the user it created carries the given username;
\* otherwise it returned false and left the user as it was.
C9_LoginIffFixedPair ==
    last.op = "login"
        => /\ last.value <=> (last.username = "admin" /\ last.password = "password123")
           /\ last.value => last.user = Some(MockUser(last.username))
           /\ ~last.value => last.user = last.before

\* login("admin", "wrong") returned false.
C9_Witness ==
    /\ last.op = "login"
    /\ last.username = "admin"
    /\ last.password = "wrong"
    /\ ~last.value

\* C10: biometricLogin() returned true exactly when authenticate() was
\* called, succeeded and retrieved the fixed pair, and then it created the
\* user; in every other case it returned false and left the user as it was.
C10_BiometricLoginOnlyForFixedPair ==
    last.op = "biometricLogin"
        => /\ last.value <=>
                (/\ last.authenticated
                 /\ last.result.success
                 /\ last.result.credentials = Some(MOCK_CREDENTIALS))
           /\ last.value => last.user = Some(MockUser("admin"))
           /\ ~last.value => last.user = last.before

\* biometricLogin() returned false although the challenge was passed: the
\* retrieved pair is not the fixed pair.
C10_Witness ==
    /\ last.op = "biometricLogin"
    /\ last.authenticated
    /\ last.result.success
    /\ ~last.value

\* The capability queries of the hook in flight: initialize()'s and those
\* of checkCapabilities().
CapabilityProbesInFlight == pc.cap + (IF pc.init = "probe" THEN 1 ELSE 0)

\* C11: at most one capability probe of the hook is in flight at any time,
\* and a checkCapabilities() call made while a check or the initialization
\* is in progress starts none.
C11_SingleFlightCapabilityCheck ==
    /\ CapabilityProbesInFlight <= 1
    /\ last.op = "checkCapabilities" => last.started <= 1

\* C12: the hook instance starts initialize() exactly once: its probe, then
\* its existence check, then done, and no render during or after it starts
\* another.
C12_InitializeOnce ==
    /\ obs.inits = 1
    /\ hook.isInitialized <=> pc.init = "done"
    /\ pc.init # "done" => hook.isLoading

\* Initialization has finished and the hook was rendered again since (a
\* login went through after it).
C12_Witness ==
    /\ pc.init = "done"
    /\ hook.isInitialized
    /\ last.op = "login"
    /\ obs.inits = 1

\* Whether the most recently returned operation carries a result of store,
\* authenticate / retrieve or remove.
HasResult ==
    \/ last.op \in {"store", "authenticate", "remove"}
    \/ last.op = "biometricLogin" /\ last.authenticated

\* C13: in every result returned by store, authenticate / retrieve and
\* remove, cancelled implies not success, and a credential is present only
\* with success.
C13_ResultInvariants ==
    HasResult
        => /\ last.result.cancelled => ~last.result.success
           /\ IsSome(last.result.credentials) => last.result.success

\* A retrieval came back cancelled.
C13_Witness ==
    /\ HasResult
    /\ last.result.cancelled
    /\ ~last.result.success

\* A step in which the hook's removeStoredCredentials() returns (to
\* logout() or to disableBiometricLogin()).
RemoveReturns ==
    \/ pc.logout = "remove" /\ pc'.logout # "remove"
    \/ pc.disable = "remove" /\ pc'.disable # "remove"

\* C14: a removal is carried out whatever the capability state and starts
\* no biometric challenge; its only failure is the deletion's own; when the
\* deletion reports success hasStoredCredentials becomes false, and when it
\* fails hasStoredCredentials and the slot keep their values.
C14_RemoveUpdatesFlagOnSuccessOnly ==
    [][RemoveReturns =>
         /\ last'.op = "remove"
         /\ pc'.bio = pc.bio /\ args'.bio = args.bio
         /\ last'.result.success =>
              ~hook'.hasStoredCredentials /\ keychain' = Null
         /\ ~last'.result.success =>
              /\ hook'.hasStoredCredentials = hook.hasStoredCredentials
              /\ keychain' = keychain
              /\ Includes(last'.result.error[1], "Failed to remove")]_vars

\* A removal succeeded while the capability was unavailable.
C14_Witness ==
    /\ last.op = "remove"
    /\ ~last.available
    /\ last.result.success
    /\ ~hook.hasStoredCredentials

\* The steps of logout() in their order.
LogoutOrder ==
    \/ pc.logout = "idle" /\ pc'.logout = "remove" /\ session'.user = Null
    \/ pc.logout = "remove" /\ pc'.logout = "keys"
    \/ pc.logout = "keys" /\ pc'.logout \in {"multiRemove", "check"}
    \/ pc.logout = "multiRemove" /\ pc'.logout = "check"
    \/ pc.logout = "check" /\ pc'.logout = "idle" /\ last'.op = "logout"

\* Some step of a logout() in flight.
LogoutStep ==
    \/ \E os \in RemoveOutcomes : LogoutRemoveDone(os)
    \/ \E rejected \in BOOLEAN : LogoutKeysDone(rejected)
    \/ \E rejected \in BOOLEAN : LogoutMultiRemoveDone(rejected)
    \/ \E rejected \in BOOLEAN : LogoutCheckDone(rejected)

\* C15: logout() clears the user, then removes the credential, then clears
\* the preferences, then re-checks the credential, in this order whatever
\* the removal and the clearing returned; and a logout() in flight can
\* always take its next step (nothing it awaits can raise out of it).
C15_LogoutOrderAndCompletion ==
    /\ [][pc'.logout # pc.logout => LogoutOrder]_vars
    /\ [](pc.logout # "idle" => ENABLED LogoutStep)

\* The removal failed and logout() is clearing the preferences.
C15_Witness ==
    /\ pc.logout = "multiRemove"
    /\ last.op = "remove"
    /\ ~last.result.success
    /\ args.keys # {}

----------------------------------------------------------------------------
\* The text parseError looks at, lower-cased.
ClassifiedText == toLowerCase(ErrorMessage(args.error))

\* The kind of the earliest rule, in the order cancel; not available / not
\* supported; not enrolled / no biometric; failed; too many / lockout;
\* hardware / sensor; system / internal, one of whose keywords the text holds.
EarliestKind(text) ==
    IF Includes(text, "cancel") THEN "USER_CANCELLED"
    ELSE IF Includes(text, "not available") \/ Includes(text, "not supported")
    THEN "NOT_AVAILABLE"
    ELSE IF Includes(text, "not enrolled") \/ Includes(text, "no biometric")
    THEN "NOT_ENROLLED"
    ELSE IF Includes(text, "failed") THEN "AUTH_FAILED"
    ELSE IF Includes(text, "too many") \/ Includes(text, "lockout") THEN "LOCKOUT"
    ELSE IF Includes(text, "hardware") \/ Includes(text, "sensor")
    THEN "HARDWARE_ERROR"
    ELSE IF Includes(text, "system") \/ Includes(text, "internal")
    THEN "SYSTEM_ERROR"
    ELSE "UNKNOWN_ERROR"

\* C16: parseError is first-match-wins over the lower-cased message: for every
\* error value the kind returned is the kind of the earliest rule, in the fixed
\* order, one of whose keywords the message contains, and Unknown when none
\* does; the message returned is the text that was looked at.  So a message
\* with "failed" and "sensor", or "failed" and "system", is AuthFailed.
C16_ClassifyFirstMatchWins ==
    last.op = "parseError" =>
        /\ last.error.code = EarliestKind(ClassifiedText)
        /\ last.error.message = ErrorMessage(args.error)
        /\ Includes(ClassifiedText, "failed")
              /\ ~Includes(ClassifiedText, "cancel")
              /\ ~Includes(ClassifiedText, "not ")
              /\ ~Includes(ClassifiedText, "no biometric")
              => last.error.code = "AUTH_FAILED"

C16_Witness ==
    /\ last.op = "parseError"
    /\ Includes(ClassifiedText, "failed")
    /\ Includes(ClassifiedText, "sensor")
    /\ last.error.code = "AUTH_FAILED"

\* s holds word (given in lower case) at some position, in any letter case.
ContainsAnyCase(s, word) ==
    \E i \in 1..(Len(s) - Len(word) + 1) :
        \A k \in 1..Len(word) :
            LowerChar(SubSeq(s, i + k - 1, i + k - 1)) = SubSeq(word, k, k)

\* C17: every error text that contains "cancel" in any letter case, whatever
\* else it contains, is classified UserCancelled, and showErrorDialog puts up
\* no dialog for it whichever handlers are passed.
C17_CancelIsSilent ==
    last.op \in {"parseError", "showErrorDialog"}
        /\ ContainsAnyCase(ErrorMessage(args.error), "cancel")
    => /\ last.error.code = "USER_CANCELLED"
       /\ last.op = "showErrorDialog" => last.dialog = Null

C17_Witness ==
    /\ last.op = "showErrorDialog"
    /\ args.error = Some([hasMessage |-> TRUE, text |-> "failed CANCEL"])
    /\ last.onRetry /\ last.onFallback
    /\ last.dialog = Null

\* The failure handed to the caller of the hook's authenticateWithBiometrics
\* (and to biometricLogin above it) after the keychain was asked.
RetrieveFailure ==
    IF last.op \in {"authenticate", "biometricLogin"}
          /\ last.retrieveCalled /\ ~last.result.success
    THEN last.result.error
    ELSE Null

\* The failure comes from the retry-lockout policy of the OS.
LockoutText(text) ==
    ContainsAnyCase(text, "too many") \/ ContainsAnyCase(text, "lockout")

\* C18: when the OS refuses a retrieval because of its retry-lockout policy,
\* the failure that reaches the caller of authenticate is classified LOCKOUT,
\* which is not recoverable, so that no retry is offered even when a retry
\* handler is passed.
C18_LockoutReachesCallerAsLockout ==
    IsSome(RetrieveFailure) /\ LockoutText(RetrieveFailure[1]) =>
        LET error == parseError(Some([hasMessage |-> FALSE,
                                      text |-> RetrieveFailure[1]]))
        IN  /\ error.code = "LOCKOUT"
            /\ ~error.recoverable
            /\ ~RetryOffered(error, TRUE)

\* The step in which the service's storeCredentials, getStoredCredentials or
\* removeStoredCredentials returns because the keychain call rejected with e.
ServiceFails(e) ==
    LET rejected == [rejected |-> TRUE, success |-> FALSE, error |-> e]
    IN  \/ StoreWriteFailed(e)
        \/ ChallengeFailed(e)
        \/ LogoutRemoveDone(rejected)
        \/ DisableDone(rejected)

\* C19: the service neither classifies nor rewrites: whenever a keychain call
\* of store, retrieve or remove rejects, a cancellation by the user included,
\* the error carried by the result is the raw diagnostic text of the rejection.
C19_ServiceCarriesRawText ==
    [][\A e \in OsErrors :
          ServiceFails(e) => last'.result.error = Some(MessageOrError(e))]_vars

\* The positions of the buttons of a dialog that call the given handler.
ButtonsCalling(buttons, handler) ==
    {i \in 1..Len(buttons) : buttons[i].onPress = handler}

\* C20: for every error kind but UserCancelled and every combination of
\* handlers, the dialog has a fallback-to-password button exactly when a
\* fallback handler was passed, a retry button exactly when the error is
\* recoverable and a retry handler was passed, and exactly one dismiss button,
\* the last one, labelled "Huy" (Cancel) when another button exists and "OK"
\* otherwise; NOT_AVAILABLE, NOT_ENROLLED and LOCKOUT never get a retry button.
C20_DialogButtons ==
    last.op = "showErrorDialog" /\ last.error.code # "USER_CANCELLED" =>
        /\ IsSome(last.dialog)
        /\ LET buttons == last.dialog[1].buttons
               n       == Len(buttons)
           IN  /\ Cardinality(ButtonsCalling(buttons, "onFallback"))
                     = IF last.onFallback THEN 1 ELSE 0
               /\ Cardinality(ButtonsCalling(buttons, "onRetry"))
                     = IF last.error.recoverable /\ last.onRetry THEN 1 ELSE 0
               /\ ButtonsCalling(buttons, "none") = {n}
               /\ {i \in 1..n : buttons[i].style = "cancel"} = {n}
               /\ buttons[n].text = IF n > 1 THEN "Huy" ELSE "OK"
               /\ last.error.code \in {"NOT_AVAILABLE", "NOT_ENROLLED", "LOCKOUT"}
                     => ButtonsCalling(buttons, "onRetry") = {}

C20_Witness ==
    /\ last.op = "showErrorDialog"
    /\ last.error.code = "LOCKOUT"
    /\ last.onRetry /\ last.onFallback
    /\ IsSome(last.dialog)
    /\ Len(last.dialog[1].buttons) = 2
    /\ last.dialog[1].buttons[2].text = "Huy"

\* C21: the slot gives back what was stored: when a storeCredentials has
\* returned success, no removal has deleted the slot since and no other store
\* is between its write and its return, a retrieval whose challenge is passed
\* on a filled slot returns exactly the pair that was stored.
C21_StoreRetrieveRoundTrip ==
    [][ChallengePassed /\ IsSome(obs.stored) /\ IsSome(keychain) /\ pc.store # "has"
           => /\ last'.result.success
              /\ last'.result.credentials = obs.stored]_vars

\* C22: the capability probe always returns a result: when the OS query
\* rejects or resolves with no biometry type the result is isAvailable false
\* with a null biometryType and an error text, and in every result, and in the
\* hook state copied from it, isAvailable is true exactly when the type is set.
C22_ProbeResultIsConsistent ==
    /\ \A os \in ProbeOutcomes :
          LET caps == getBiometricCapabilities(os) IN
          /\ caps.isAvailable <=> IsSome(caps.biometryType)
          /\ os.rejected \/ os.type = Null
                => ~caps.isAvailable /\ caps.biometryType = Null /\ IsSome(caps.error)
    /\ hook.isAvailable <=> IsSome(hook.biometryType)

C22_Witness ==
    /\ pc.init = "has"
    /\ ~hook.isAvailable
    /\ hook.biometryType = Null

\* initialize() moves on: the probe settles, then the existence check.
InitStep ==
    \/ \E os \in ProbeOutcomes : InitProbeDone(os)
    \/ \E rejected \in BOOLEAN : InitHasDone(rejected)

\* The order of initialize() and the state it ends in.
InitOrderAndEnd ==
    /\ pc'.init # pc.init =>
          \/ pc.init = "probe" /\ pc'.init = "has"
          \/ pc.init = "has" /\ pc'.init = "done"
    /\ pc.init = "probe" /\ pc'.init = "has" =>
          hook'.isLoading /\ ~hook'.isInitialized
    /\ pc.init = "has" /\ pc'.init = "done" =>
          ~hook'.isLoading /\ hook'.isInitialized

LoginInFlight == pc.login = "wait"
BiometricLoginInFlight == pc.bio # "idle" /\ args.bio[1].via = "login"

\* The steps that bring a biometricLogin() or authenticate call to its return.
AuthenticateStep ==
    \/ AuthenticateRefused
    \/ \E os \in ProbeOutcomes : RetrieveProbeDone(os)
    \/ ChallengePassed
    \/ \E e \in OsErrors : ChallengeFailed(e)

\* C24: once every login() and biometricLogin() call has returned, whatever
\* its outcome, the session's isLoading is false; and a call in flight can
\* always take its next step, so the flag cannot stay raised.
C24_LoadingFlagLowered ==
    /\ ~LoginInFlight /\ ~BiometricLoginInFlight => ~session.isLoading
    /\ LoginInFlight => ENABLED LoginDone
    /\ pc.bio # "idle" => ENABLED AuthenticateStep

C24_Witness ==
    /\ last.op = "biometricLogin" /\ last.authenticated
    /\ last.result.cancelled
    /\ ~LoginInFlight /\ ~BiometricLoginInFlight
    /\ ~session.isLoading

\* The enable prompt would be due now: biometrics available, no stored
\* credential known to the hook, prompt not dismissed before.
PromptDue ==
    /\ hook.isAvailable
    /\ ~hook.hasStoredCredentials
    /\ "biometric_prompt_dismissed" \notin prefs

\* handleLogin, after a successful login(), decides about the prompt: at once
\* after saving the username, or after reading the dismissed flag.
PromptDecided ==
    \/ \E rejected \in BOOLEAN : SaveNameDone(rejected) /\ pc'.login = "idle"
    \/ DismissedCheckDone(FALSE)

\* C25 (storage calls that succeed): handleLogin comes to the prompt only
\* after login() returned true; it offers the prompt exactly when it is due;
\* 'Later' sets the dismissed flag; a successful enable clears the dismissed
\* flag and sets the shown flag.
C25_PromptOfferedExactlyWhenDue ==
    [][/\ pc'.login = "saveName" /\ pc.login # "saveName"
             => last'.op = "login" /\ last'.value
       /\ pc'.login = "dismissed" /\ pc.login # "dismissed" => pc.login = "saveName"
       /\ pc'.login = "prompt" /\ pc.login # "prompt" => pc.login = "dismissed"
       /\ PromptDecided => (pc'.login = "prompt" <=> PromptDue)
       /\ PromptLaterDone(FALSE) => "biometric_prompt_dismissed" \in prefs'
       /\ ClearDismissedDone(FALSE) /\ last.op = "store"
             => last.result.success /\ "biometric_prompt_dismissed" \notin prefs'
       /\ SetShownDone(FALSE) => "biometric_prompt_shown" \in prefs']_vars

\* No operation of the hook that reads or writes the stored flag is in
\* flight: initialize, storeCredentials, removeStoredCredentials, logout with
\* its existence check.
HookQuiet ==
    /\ pc.init = "done"
    /\ pc.store \in {"idle", "clearDismissed", "setShown"}
    /\ pc.logout = "idle"
    /\ pc.disable = "idle"

\* C26: with an existence query that always answers, whenever no such
\* operation is in flight hasStoredCredentials tells whether the slot is
\* filled, whatever store, remove, authenticate and logout calls came before
\* and however they were interleaved.
C26_StoredFlagMatchesSlot ==
    HookQuiet => (hook.hasStoredCredentials <=> IsSome(keychain))

C26_Witness ==
    /\ HookQuiet
    /\ last.op = "remove" /\ ~last.result.success
    /\ IsSome(obs.stored)
    /\ hook.hasStoredCredentials /\ IsSome(keychain)

\* C27: a login() or biometricLogin() that was in flight when logout() ran
\* does not create a session when it returns later: a call that returns true
\* and sets the user was invoked after the last logout().
C27_NoSessionFromCallBeforeLogout ==
    last.op \in {"login", "biometricLogin"} /\ last.value /\ IsSome(last.user)
        => ~last.beforeLogout

\* The one user the demo knows.
FixedUser == [id |-> "1", username |-> "admin", email |-> "admin@example.com"]

\* C28: in every reachable state the session user is absent or is the fixed
\* user, whatever login, biometricLogin, enable, disable and logout calls were
\* made and whatever the slot holds.
C28_OnlyFixedUser == session.user = Null \/ session.user = Some(FixedUser)

C28_Witness ==
    /\ last.op = "biometricLogin" /\ last.value
    /\ session.user = Some(FixedUser)

\* C29: for every failure result of the store's or the retrieval's catch block
\* and every thrown value (any letter case, with or without a message field),
\* cancelled is true exactly when parseError applied to the result's error text
\* yields USER_CANCELLED.
C29_CancelledAgreesWithClassifier ==
    last.op = "catch" =>
        (last.result.cancelled <=> last.error.code = "USER_CANCELLED")

\* Nothing is loading: neither the orchestrator (initialization or a
\* capability check) nor the session (a login).
NothingLoading == ~hook.isLoading /\ ~session.isLoading

\* C30: an automatic attempt is pending only on a mounted login screen while
\* both loading flags are false (a pending one is cancelled by teardown and by
\* every re-evaluation of its conditions), so the attempt never starts while
\* the orchestrator is loading or a login is in progress.
C30_NoAutoAttemptWhileLoading ==
    /\ screen.timer => screen.mounted /\ NothingLoading
    /\ ENABLED AutoAttemptTimer => NothingLoading

\* A scheduled attempt was cancelled by a capability check that started
\* before the delay elapsed.
C30_Witness ==
    /\ screen.mounted /\ obs.scheduled = 1 /\ ~screen.timer
    /\ hook.isLoading /\ pc.bio = "idle" /\ ~screen.biometricAttempted

====
